---- MODULE Spec2Model ----
(***************************************************************************)
(* AutoZoo timer bot (src/index.js): the Redis-backed timer store, the     *)
(* polling scheduler (checkTimers), the delivery path with bounded retry   *)
(* (sendMessage), the Set entry point (setTimer), the time normalizer and  *)
(* the message handlers with their dispatch (messageCreate).               *)
(*                                                                         *)
(* Every `await` of the source is a step boundary: one action performs one *)
(* Redis call or one transport call of one running async function, so the  *)
(* interleavings of the model are those of the Node.js event loop (and of  *)
(* the Redis server, which executes one command at a time).                *)
(***************************************************************************)
EXTENDS Integers, Sequences, FiniteSets, Bags, TLC

(* ------------------------------ constants ------------------------------ *)

\* src/index.js:50
MAX_RETRY_ATTEMPTS == 3
\* src/index.js:51 (ms); the clock of the model advances in steps of this size
RETRY_DELAY == 5000
\* src/index.js:139: redis.expire(key, 3600), in ms
RETRY_TTL == 3600 * 1000

\* model bounds
MaxClock == 2       \* the clock runs from RETRY_DELAY to MaxClock * RETRY_DELAY
MaxTasks == 2       \* async functions running at the same time
MaxSets == 1        \* setTimer calls per (channel, type) pair
MaxFail == 4        \* transport failures the environment may produce
MaxRestarts == 1    \* process restarts

\* the (channelId, timerType) pairs of the model: two channels, both types
Pairs == {<<"c1", "rescue">>, <<"c2", "cardPull">>}
\* the channels whose transport may fail
Flaky == {"c1"}
Instants == {k * RETRY_DELAY : k \in 0..MaxClock}

(* ------------------------- JSON number encoding ------------------------ *)

RECURSIVE ToDigits(_)
\* decimal text of a non-negative integer, as JSON.stringify writes it
ToDigits(n) == IF n < 10 THEN <<n>> ELSE Append(ToDigits(n \div 10), n % 10)

\* a parse that stops one character early
FromDigitsShort(s) == IF Len(s) <= 1 THEN 0 ELSE s[1]

RECURSIVE FromDigits(_)
\* the number JSON.parse / parseInt reads from decimal text
FromDigits(s) ==
  IF Len(s) = 0 THEN 0
  ELSE 10 * FromDigits(SubSeq(s, 1, Len(s) - 1)) + s[Len(s)]

\* an absent Redis key (GET returns null)
Nil == [kind |-> "nil"]

\* JSON.stringify(timerData) of setTimerInRedis; the setAt field is written
\* and then only logged, and is left out of the stored text
StringifyTimer(p, targetTime) ==
  [kind |-> "json", targetTime |-> ToDigits(targetTime),
   channelId |-> p[1], timerType |-> p[2]]

\* text is a sequence of one-character strings
DigitChars == <<"0", "1", "2", "3", "4", "5", "6", "7", "8", "9">>
IsDigit(c) == \E i \in 1..10 : DigitChars[i] = c
DigitOf(c) == (CHOOSE i \in 1..10 : DigitChars[i] = c) - 1
IsSpace(c) == c = " "

\* the JavaScript values null, NaN and undefined, and a string that is not a
\* number, where a number is expected
NoTime == -1
NaNTime == -2
Undef == -3
StrTime == -4
\* !value for such a value
Falsy(x) == x \in {NoTime, NaNTime, Undef, 0}

RECURSIVE SkipSpaces(_)
SkipSpaces(s) == IF Len(s) > 0 /\ IsSpace(Head(s)) THEN SkipSpaces(Tail(s)) ELSE s

RECURSIVE DigitPrefix(_)
\* the digits a text starts with, as numbers
DigitPrefix(s) ==
  IF Len(s) > 0 /\ IsDigit(Head(s)) THEN <<DigitOf(Head(s))>> \o DigitPrefix(Tail(s))
  ELSE <<>>

\* parseInt(text): the leading digits after leading blanks, NaN without any
ParseInt(s) ==
  LET d == DigitPrefix(SkipSpaces(s))
  IN IF Len(d) = 0 THEN NaNTime ELSE FromDigits(d)

\* getTimerFromRedis on the value of the key: null when absent, else
\* JSON.parse(value).targetTime, and parseInt(value) when that throws. The
\* values setTimerInRedis writes are of kind json; the other kinds are values
\* found in Redis that it did not write:
\*   text      not JSON: JSON.parse throws
\*   jsonNull  the JSON text null: data.targetTime throws, parseInt("null") is NaN
\*   noField   JSON without a targetTime field, such as {} or the plain
\*             timestamp of the old format, which JSON.parse reads as a number
\*   strField  JSON whose targetTime is a string that is not a number
ParseTargetTime(v) ==
  CASE v.kind = "nil" -> NoTime
    [] v.kind = "json" -> FromDigits(v.targetTime)
    [] v.kind = "text" -> ParseInt(v.text)
    [] v.kind = "jsonNull" -> NaNTime
    [] v.kind = "noField" -> Undef
    [] OTHER -> StrTime

(* --------------------------- time normalizer --------------------------- *)

\* The texts below are made of digits, blanks, ':', '*' and letters; a
\* number is a run of digits (no sign, fraction or exponent).

RECURSIVE TrimLeft(_)
TrimLeft(s) == IF Len(s) > 0 /\ IsSpace(Head(s)) THEN TrimLeft(Tail(s)) ELSE s
RECURSIVE TrimRight(_)
TrimRight(s) ==
  IF Len(s) > 0 /\ IsSpace(s[Len(s)]) THEN TrimRight(SubSeq(s, 1, Len(s) - 1)) ELSE s
\* String.prototype.trim
Trim(s) == TrimRight(TrimLeft(s))

IsStar(c) == c = "*"
NotStar(c) == ~IsStar(c)
\* cooldownStr.replace(/\*/g, '')
RemoveStars(s) == SelectSeq(s, NotStar)

RECURSIVE Split(_, _)
\* String.prototype.split(sep): the pieces between the separators
Split(s, sep) ==
  IF \A i \in 1..Len(s) : s[i] # sep THEN <<s>>
  ELSE LET i == CHOOSE k \in 1..Len(s) : s[k] = sep /\ \A j \in 1..(k - 1) : s[j] # sep
       IN <<SubSeq(s, 1, i - 1)>> \o Split(SubSeq(s, i + 1, Len(s)), sep)

\* Number(text): 0 for a blank text, the number for digits, else NaN
NumberOf(s) ==
  LET t == Trim(s)
  IN IF Len(t) = 0 THEN 0
     ELSE IF \A i \in 1..Len(t) : IsDigit(t[i]) THEN FromDigits([i \in 1..Len(t) |-> DigitOf(t[i])])
     ELSE NaNTime
\* Number.isFinite
IsFinite(x) == x # NaNTime

Reverse(q) == [i \in 1..Len(q) |-> q[Len(q) + 1 - i]]

\* parseCooldown(cooldownStr): seconds, minutes and hours read from the right
ParseCooldown(cooldownStr) ==
  LET pieces == Split(Trim(RemoveStars(cooldownStr)), ":")
      parts == Reverse([i \in 1..Len(pieces) |-> NumberOf(pieces[i])])
      Part(i, unit) == IF Len(parts) >= i /\ IsFinite(parts[i]) THEN parts[i] * unit ELSE 0
  IN Part(1, 1000) + Part(2, 60 * 1000) + Part(3, 60 * 60 * 1000)

UpperChars == <<"H", "M", "S", "N", "O", "W">>
LowerChars == <<"h", "m", "s", "n", "o", "w">>
\* toLowerCase, one character
LowerOf(c) ==
  IF \E i \in 1..Len(UpperChars) : UpperChars[i] = c
  THEN LowerChars[CHOOSE i \in 1..Len(UpperChars) : UpperChars[i] = c]
  ELSE c
ToLower(s) == [i \in 1..Len(s) |-> LowerOf(s[i])]

\* the milliseconds of a unit, by its first letter (/^h/, /^m/, /^s/)
UnitMs(c) == CASE c = "h" -> 60 * 60 * 1000 [] c = "m" -> 60 * 1000 [] OTHER -> 1000
IsUnit(c) == c \in {"h", "m", "s"}

RECURSIVE RunEnd(_, _)
\* the first position from i on that holds no digit
RunEnd(s, i) == IF i <= Len(s) /\ IsDigit(s[i]) THEN RunEnd(s, i + 1) ELSE i
RECURSIVE SpacesEnd(_, _)
SpacesEnd(s, i) == IF i <= Len(s) /\ IsSpace(s[i]) THEN SpacesEnd(s, i + 1) ELSE i

RECURSIVE ScanUnits(_, _)
\* the while loop over re.exec(text): every number that a unit follows
\* (blanks between them allowed) adds its value times the unit
ScanUnits(s, i) ==
  IF i > Len(s) THEN 0
  ELSE IF ~IsDigit(s[i]) THEN ScanUnits(s, i + 1)
  ELSE LET j == RunEnd(s, i)
           k == SpacesEnd(s, j)
           val == FromDigits([n \in 1..(j - i) |-> DigitOf(s[i + n - 1])])
       IN IF k <= Len(s) /\ IsUnit(s[k]) THEN val * UnitMs(s[k]) + ScanUnits(s, k + 1)
          ELSE ScanUnits(s, j)

\* parseHumanDuration(text): the units summed, or a bare number as minutes
ParseHumanDuration(text) ==
  IF Len(text) = 0 THEN 0
  ELSE LET ms == ScanUnits(ToLower(text), 1)
           n == ParseInt(ToLower(text))
       IN IF ms # 0 THEN ms ELSE IF n = NaNTime THEN 0 ELSE n * 60 * 1000

\* /now/i.test(timeStr)
ContainsNow(s) ==
  \E i \in 1..(Len(s) - 2) : ToLower(SubSeq(s, i, i + 2)) = <<"n", "o", "w">>

RECURSIVE StripZeros(_)
StripZeros(d) == IF Len(d) > 1 /\ d[1] = 0 THEN StripZeros(Tail(d)) ELSE d
\* Number(ts) * 1000 in decimal digits (the product does not fit a 32-bit
\* integer for an epoch in seconds)
TimesThousand(ts) ==
  LET d == StripZeros([i \in 1..Len(ts) |-> DigitOf(ts[i])])
  IN IF d = <<0>> THEN d ELSE d \o <<0, 0, 0>>

\* absoluteFromParts(timeStr, ts) at Date.now() = clock, in decimal digits;
\* ts is the text the pattern (\d+) captured, empty when it captured nothing
AbsoluteFromParts(timeStr, ts, clock) ==
  IF Len(ts) > 0 THEN TimesThousand(ts)
  ELSE IF ContainsNow(timeStr) THEN ToDigits(clock)
  ELSE ToDigits(clock + ParseCooldown(timeStr))

(* ------------------------------ status text --------------------------- *)

\* formatRemaining(ms): '0s' for no time, else hours, minutes and seconds,
\* each rounded down
FormatRemaining(ms) ==
  IF Falsy(ms) \/ ms <= 0 THEN [h |-> 0, m |-> 0, s |-> 0]
  ELSE [h |-> ms \div 3600000, m |-> (ms % 3600000) \div 60000, s |-> (ms % 60000) \div 1000]

\* nextTime - Date.now(), NaN when nextTime is not a number
Remaining(nextTime, clock) == IF nextTime = StrTime THEN NaNTime ELSE nextTime - clock

\* formatTimerStatus(nextTime): 'No active timer', 'Ready now!' or the
\* remaining time
FormatTimerStatus(nextTime, clock) ==
  IF Falsy(nextTime) THEN [status |-> "NoTimer", left |-> FormatRemaining(0)]
  ELSE IF Remaining(nextTime, clock) # NaNTime /\ Remaining(nextTime, clock) <= 0
  THEN [status |-> "Ready", left |-> FormatRemaining(0)]
  ELSE [status |-> "Remaining", left |-> FormatRemaining(Remaining(nextTime, clock))]

\* SET timer:<channelId>:<timerType> and DEL of the same key
SetTimerKey(tm, p, targetTime) == [tm EXCEPT ![p] = StringifyTimer(p, targetTime)]
DelTimerKey(tm, p) == [tm EXCEPT ![p] = Nil]

(* ----------------------- Redis commands (timers:queue) ----------------- *)

\* the sorted set is a set of <<score, member>> entries
Members(q) == {e[2] : e \in q}
EntriesOf(q, m) == {e \in q : e[2] = m}

\* an insertion that leaves the member's old entry in place
ZAddKeepOld(q, score, m) == q \cup {<<score, m>>}

\* ZADD key score member: an existing member is moved to the new score
ZAdd(q, score, m) == {e \in q : e[2] # m} \cup {<<score, m>>}

\* a removal that leaves the index as it is
ZRemNothing(q, m) == q

\* ZREM key member
ZRem(q, m) == {e \in q : e[2] # m}

\* Redis orders a sorted set by score, then by member (lexicographically)
\* ("c1:cardPull" < "c1:rescue" < "c2:cardPull" < "c2:rescue")
MemberRank(m) ==
  2 * (IF m[1] = "c1" THEN 0 ELSE 1) + (IF m[2] = "cardPull" THEN 0 ELSE 1)
\* an order by member alone
EntryBeforeByMember(a, b) == MemberRank(a[2]) < MemberRank(b[2])

\* an order that puts the later member first among equal scores
EntryBeforeTiesReversed(a, b) ==
  \/ a[1] < b[1]
  \/ a[1] = b[1] /\ MemberRank(a[2]) > MemberRank(b[2])

EntryBefore(a, b) ==
  \/ a[1] < b[1]
  \/ a[1] = b[1] /\ MemberRank(a[2]) < MemberRank(b[2])

RECURSIVE SortEntries(_)
SortEntries(S) ==
  IF S = {} THEN <<>>
  ELSE LET first == CHOOSE a \in S : \A b \in S \ {a} : EntryBefore(a, b)
       IN <<first>> \o SortEntries(S \ {first})

\* ZRANGEBYSCORE key min max: the members with min <= score <= max, in order
ZRangeByScore(q, min, max) ==
  LET hit == SortEntries({e \in q : min <= e[1] /\ e[1] <= max})
  IN [i \in 1..Len(hit) |-> hit[i][2]]

(* -------------------------------- state -------------------------------- *)

VARIABLES
  timers,    \* Redis string keys timer:<channelId>:<timerType>, by pair
  queue,     \* Redis sorted set timers:queue
  retries,   \* Redis counters retry:<channelId>:<timerType>, by pair (0: absent)
  expiry,    \* the instant a retry counter expires, by pair (0: no expiry set)
  now,       \* Date.now()
  tasks,     \* the async functions in progress (a bag of activation records)
  pending,   \* retries scheduled with setTimeout and not yet started
  retryAt,   \* the instant the retry scheduled last falls due (0: none scheduled)
  armed,     \* history: setTimer calls made, by pair
  fired,     \* history: ready notifications the transport accepted, by pair
  fails,     \* history: failures the transport has produced
  restarts,  \* history: process restarts
  call,      \* store client: the store function in progress
  last,      \* store client: the store function that returned last, with its result
  prev,      \* store client: the one that returned before it
  pre        \* store client: <<timers, queue>> when the last function was called

vars == <<timers, queue, retries, expiry, now, tasks, pending, retryAt, armed, fired,
          fails, restarts, call, last, prev, pre>>
store == <<timers, queue, retries, expiry>>
client == <<call, last, prev, pre>>
engine == <<retries, expiry, tasks, pending, retryAt, armed, fired, fails, restarts>>

\* no store function called, or none returned yet
NoCall == [op |-> "none", pair |-> <<"-", "-">>, t |-> 0, pc |-> "-", ret |-> 0, list |-> <<>>]

Msgs == {"ready", "set"}
NoPair == <<"-", "-">>

\* the activation record of a finished function
Idle == [type |-> "idle", pc |-> "-", pair |-> NoPair, msg |-> "-", target |-> 0,
         notify |-> FALSE, snapNow |-> 0, due |-> <<>>]

Active == BagToSet(tasks)
One(t) == SetToBag({t})
\* function t moves on to t2, or is finished
Become(t, t2) == IF t2 = Idle THEN tasks (-) One(t) ELSE (tasks (-) One(t)) (+) One(t2)
\* a function starts
Started(t) == tasks (+) One(t)
HasRoom == BagCardinality(tasks) < MaxTasks

\* checkTimers, entered by setInterval or by checkMissedTimers
NewTick == [Idle EXCEPT !.type = "tick", !.pc = "scan"]

NoPending == [x \in Pairs \X Msgs |-> 0]
NoExpiry == [p \in Pairs |-> 0]

Init ==
  /\ timers = [p \in Pairs |-> Nil]
  /\ queue = {}
  /\ retries = [p \in Pairs |-> 0]
  /\ expiry = NoExpiry
  /\ now = RETRY_DELAY
  /\ tasks = One(NewTick)
  /\ pending = NoPending
  /\ retryAt = NoPending
  /\ armed = [p \in Pairs |-> 0]
  /\ fired = [p \in Pairs |-> 0]
  /\ fails = 0
  /\ restarts = 0
  /\ call = NoCall
  /\ last = NoCall
  /\ prev = NoCall
  /\ pre = <<timers, queue>>

(* --------------------------- control transfer -------------------------- *)

\* the for-loop of checkTimers moves to the next due timer, or the pass ends
NextPair(t) ==
  IF Len(t.due) = 0 THEN Idle
  ELSE [t EXCEPT !.pc = "get", !.pair = Head(t.due), !.due = Tail(t.due), !.msg = "-"]

\* what the caller of sendMessage does with its result: the retry callback
\* drops it, setTimer clears the timer after the ready message whatever the
\* result, checkTimers clears the timer if (sent)
AfterSend(t, sent) ==
  CASE t.type = "retry" -> Idle
    [] t.type = "set" -> IF t.msg = "ready" THEN [t EXCEPT !.pc = "clrDel"] ELSE Idle
    [] OTHER -> IF sent THEN [t EXCEPT !.pc = "clrDel"] ELSE NextPair(t)

\* what follows a completed clearTimerFromRedis in checkTimers and setTimer
AfterClear(t) == IF t.type = "tick" THEN NextPair(t) ELSE Idle

(* ------------------------------ environment ---------------------------- *)

\* the wall clock advances
AdvanceClock ==
  /\ now < MaxClock * RETRY_DELAY
  /\ now' = now + RETRY_DELAY
  /\ UNCHANGED <<client, store, tasks, pending, retryAt, armed, fired, fails, restarts>>

\* setInterval(checkTimers, TIMER_CHECK_INTERVAL) starts a pass; a pass still
\* running is not waited for
StartTick ==
  /\ HasRoom
  /\ tasks' = Started(NewTick)
  /\ UNCHANGED <<client, store, now, pending, retryAt, armed, fired, fails, restarts>>

\* a message handler calls setTimer(channelId, timerType, targetTime, channel, notify)
StartSet(p, t, n) ==
  /\ HasRoom
  /\ armed[p] < MaxSets
  /\ tasks' = Started([Idle EXCEPT !.type = "set", !.pc = "setKey", !.pair = p,
                                   !.msg = "ready", !.target = t, !.notify = n])
  /\ armed' = [armed EXCEPT ![p] = @ + 1]
  /\ UNCHANGED <<client, store, now, pending, retryAt, fired, fails, restarts>>

\* the callback of setTimeout(..., RETRY_DELAY) runs: sendMessage again (how
\* far the clock has moved by then is left open here, see FireRetryDue)
FireRetry(p, m) ==
  /\ HasRoom
  /\ pending[<<p, m>>] > 0
  /\ pending' = [pending EXCEPT ![<<p, m>>] = @ - 1]
  /\ retryAt' = [retryAt EXCEPT ![<<p, m>>] = IF pending[<<p, m>>] = 1 THEN 0 ELSE @]
  /\ tasks' = Started([Idle EXCEPT !.type = "retry", !.pc = "send", !.pair = p, !.msg = m])
  /\ UNCHANGED <<client, store, now, armed, fired, fails, restarts>>

\* the process stops and starts again: Redis keeps its keys, the running
\* functions and the scheduled callbacks are gone, and clientReady runs
\* checkMissedTimers
Restart ==
  /\ restarts < MaxRestarts
  /\ restarts' = restarts + 1
  /\ tasks' = One(NewTick)
  /\ pending' = NoPending
  /\ retryAt' = NoPending
  /\ UNCHANGED <<client, store, now, armed, fired, fails>>

(* ---------------------------- setTimerInRedis -------------------------- *)

\* await redis.set(key, JSON.stringify(timerData))
SetKey(t) ==
  /\ t.pc = "setKey"
  /\ timers' = SetTimerKey(timers, t.pair, t.target)
  /\ tasks' = Become(t, [t EXCEPT !.pc = "setZadd"])
  /\ UNCHANGED <<client, queue, retries, expiry, now, pending, retryAt, armed, fired, fails,
                 restarts>>

\* setTimer after setTimerInRedis: the ready message when the target time has
\* passed, the confirmation when notify is set, else nothing
AfterSetTimerInRedis(t, clock) ==
  IF t.target - clock <= 0
  THEN [t EXCEPT !.pc = "send", !.msg = "ready", !.target = 0, !.notify = FALSE]
  ELSE IF t.notify
  THEN [t EXCEPT !.pc = "send", !.msg = "set", !.target = 0, !.notify = FALSE]
  ELSE Idle

\* await redis.zadd('timers:queue', targetTime, member), then setTimer goes on
SetZadd(t) ==
  /\ t.pc = "setZadd"
  /\ queue' = ZAdd(queue, t.target, t.pair)
  /\ tasks' = Become(t, AfterSetTimerInRedis(t, now))
  /\ UNCHANGED <<client, timers, retries, expiry, now, pending, retryAt, armed, fired, fails,
                 restarts>>

(* --------------------------- clearTimerFromRedis ----------------------- *)

\* the three calls of clearTimerFromRedis: after the ready message (clr), on
\* retry exhaustion (ex), and for an index entry without data (clean)
DelPcs == {"clrDel", "exDel", "cleanDel"}
ZremAfter(pc) ==
  CASE pc = "clrDel" -> "clrZrem" [] pc = "exDel" -> "exZrem" [] OTHER -> "cleanZrem"

\* await redis.del(key)
DelKey(t) ==
  /\ t.pc \in DelPcs
  /\ timers' = DelTimerKey(timers, t.pair)
  /\ tasks' = Become(t, [t EXCEPT !.pc = ZremAfter(t.pc)])
  /\ UNCHANGED <<client, queue, retries, expiry, now, pending, retryAt, armed, fired, fails,
                 restarts>>

\* await redis.zrem('timers:queue', member), then the caller goes on: the
\* exhausted sendMessage clears the retry counter, checkTimers and setTimer
\* are done with the pair
ZremMember(t) ==
  /\ t.pc \in {"clrZrem", "exZrem", "cleanZrem"}
  /\ queue' = ZRem(queue, t.pair)
  /\ tasks' = Become(t, IF t.pc = "exZrem" THEN [t EXCEPT !.pc = "exClr"]
                        ELSE AfterClear(t))
  /\ UNCHANGED <<client, timers, retries, expiry, now, pending, retryAt, armed, fired, fails,
                 restarts>>

(* ------------------------------ sendMessage ---------------------------- *)

\* the history counter of ready notifications stops counting past this
FiredCap == MaxSets + 1
CountFired(f, t) ==
  IF t.msg = "ready" /\ f[t.pair] < FiredCap THEN [f EXCEPT ![t.pair] = @ + 1] ELSE f

\* await channel.send(message): the transport accepts the message
SendOk(t) ==
  /\ t.pc = "send"
  /\ fired' = CountFired(fired, t)
  /\ tasks' = Become(t, [t EXCEPT !.pc = "clearRetry"])
  /\ UNCHANGED <<client, store, now, pending, retryAt, armed, fails, restarts>>

\* await channel.send(message) throws; the environment produces at most
\* limit failures, for the channels of Flaky
SendFail(t, limit) ==
  /\ t.pc = "send"
  /\ fails < limit
  /\ t.pair[1] \in Flaky
  /\ fails' = fails + 1
  /\ tasks' = Become(t, [t EXCEPT !.pc = "getRetry"])
  /\ UNCHANGED <<client, store, now, pending, retryAt, armed, fired, restarts>>

\* a success branch that leaves the retry counter as it is
ClearRetryKeepCount(t) ==
  /\ t.pc = "clearRetry"
  /\ tasks' = Become(t, AfterSend(t, TRUE))
  /\ UNCHANGED <<client, store, now, pending, retryAt, armed, fired, fails, restarts>>

\* try branch: await clearRetryCount(channelId, timerType); return true
ClearRetry(t) ==
  /\ t.pc = "clearRetry"
  /\ retries' = [retries EXCEPT ![t.pair] = 0]
  /\ expiry' = [expiry EXCEPT ![t.pair] = 0]
  /\ tasks' = Become(t, AfterSend(t, TRUE))
  /\ UNCHANGED <<client, timers, queue, now, pending, retryAt, armed, fired, fails, restarts>>

\* a branch that gives up at the first failure
RetryBranchNoRetry(retryCount) == IF retryCount < 0 THEN "incr" ELSE "exDel"

\* catch branch: retryCount < MAX_RETRY_ATTEMPTS decides between a retry
\* and giving up
RetryBranch(retryCount) == IF retryCount < MAX_RETRY_ATTEMPTS THEN "incr" ELSE "exDel"

\* catch branch: const retryCount = await getRetryCount(channelId, timerType)
GetRetry(t) ==
  /\ t.pc = "getRetry"
  /\ tasks' = Become(t, [t EXCEPT !.pc = RetryBranch(retries[t.pair])])
  /\ UNCHANGED <<client, store, now, pending, retryAt, armed, fired, fails, restarts>>

\* incrementRetryCount: await redis.incr(key); INCR leaves the key's expiry
\* as it is (none on a key it creates)
IncrRetry(t) ==
  /\ t.pc = "incr"
  /\ retries' = [retries EXCEPT ![t.pair] = @ + 1]
  /\ tasks' = Become(t, [t EXCEPT !.pc = "expire"])
  /\ UNCHANGED <<client, timers, queue, expiry, now, pending, retryAt, armed, fired, fails,
                 restarts>>

\* a retry scheduled without the expiry of the counter being set
ScheduleRetryNoExpiry(t) ==
  /\ t.pc = "expire"
  /\ pending' = [pending EXCEPT ![<<t.pair, t.msg>>] = @ + 1]
  /\ retryAt' = [retryAt EXCEPT ![<<t.pair, t.msg>>] = now + RETRY_DELAY]
  /\ tasks' = Become(t, AfterSend(t, FALSE))
  /\ UNCHANGED <<client, store, now, armed, fired, fails, restarts>>

\* incrementRetryCount: await redis.expire(key, 3600); then the retry is
\* scheduled with setTimeout(..., RETRY_DELAY) and sendMessage returns false
ScheduleRetry(t) ==
  /\ t.pc = "expire"
  /\ expiry' = [expiry EXCEPT ![t.pair] = IF retries[t.pair] > 0 THEN now + RETRY_TTL ELSE 0]
  /\ pending' = [pending EXCEPT ![<<t.pair, t.msg>>] = @ + 1]
  /\ retryAt' = [retryAt EXCEPT ![<<t.pair, t.msg>>] = now + RETRY_DELAY]
  /\ tasks' = Become(t, AfterSend(t, FALSE))
  /\ UNCHANGED <<client, timers, queue, retries, now, armed, fired, fails, restarts>>

\* max retries reached, after clearTimerFromRedis: await clearRetryCount;
\* return false
ExhaustClearRetry(t) ==
  /\ t.pc = "exClr"
  /\ retries' = [retries EXCEPT ![t.pair] = 0]
  /\ expiry' = [expiry EXCEPT ![t.pair] = 0]
  /\ tasks' = Become(t, AfterSend(t, FALSE))
  /\ UNCHANGED <<client, timers, queue, now, pending, retryAt, armed, fired, fails, restarts>>

(* ------------------------------ checkTimers ---------------------------- *)

\* dueTimers = await redis.zrangebyscore('timers:queue', 0, now)
DueBefore(q, instant) == ZRangeByScore(q, 0, instant)

\* const now = Date.now(), the due scan, and the first turn of the for-loop
Scan(t) ==
  /\ t.pc = "scan"
  /\ tasks' = Become(t, NextPair([t EXCEPT !.snapNow = now, !.due = DueBefore(queue, now)]))
  /\ UNCHANGED <<client, store, now, pending, retryAt, armed, fired, fails, restarts>>

\* timerData = await getTimerDataFromRedis(...): missing data is cleaned up,
\* a timer not yet due is skipped, a due one is delivered
AfterGetDataNoRecheck(t, v) ==
  IF v.kind = "nil" \/ FromDigits(v.targetTime) = 0 THEN [t EXCEPT !.pc = "cleanDel"]
  ELSE [t EXCEPT !.pc = "fetch"]

AfterGetData(t, v) ==
  IF v.kind = "nil" \/ FromDigits(v.targetTime) = 0 THEN [t EXCEPT !.pc = "cleanDel"]
  ELSE IF FromDigits(v.targetTime) > t.snapNow THEN NextPair(t)
  ELSE [t EXCEPT !.pc = "fetch"]

GetData(t) ==
  /\ t.pc = "get"
  /\ tasks' = Become(t, AfterGetData(t, timers[t.pair]))
  /\ UNCHANGED <<client, store, now, pending, retryAt, armed, fired, fails, restarts>>

\* channel = await client.channels.fetch(channelId): the channel, an Unknown
\* Channel error (the timer is cleaned up), or another error (logged)
AfterFetch(t, outcome) ==
  CASE outcome = "ok" -> [t EXCEPT !.pc = "send", !.msg = "ready"]
    [] outcome = "unknown" -> [t EXCEPT !.pc = "clrDel"]
    [] OTHER -> NextPair(t)

FetchOk(t) ==
  /\ t.pc = "fetch"
  /\ tasks' = Become(t, AfterFetch(t, "ok"))
  /\ UNCHANGED <<client, store, now, pending, retryAt, armed, fired, fails, restarts>>

FetchFail(t, outcome, limit) ==
  /\ t.pc = "fetch"
  /\ fails < limit
  /\ t.pair[1] \in Flaky
  /\ fails' = fails + 1
  /\ tasks' = Become(t, AfterFetch(t, outcome))
  /\ UNCHANGED <<client, store, now, pending, retryAt, armed, fired, restarts>>

(* ----------------------------- specification --------------------------- *)

Next ==
  \/ AdvanceClock
  \/ Restart
  \/ StartTick
  \/ \E p \in Pairs, t \in Instants, n \in BOOLEAN : StartSet(p, t, n)
  \/ \E p \in Pairs, m \in Msgs : FireRetry(p, m)
  \/ \E t \in Active : SetKey(t)
  \/ \E t \in Active : SetZadd(t)
  \/ \E t \in Active : DelKey(t)
  \/ \E t \in Active : ZremMember(t)
  \/ \E t \in Active : SendOk(t)
  \/ \E t \in Active : SendFail(t, MaxFail)
  \/ \E t \in Active : ClearRetry(t)
  \/ \E t \in Active : GetRetry(t)
  \/ \E t \in Active : IncrRetry(t)
  \/ \E t \in Active : ScheduleRetry(t)
  \/ \E t \in Active : ExhaustClearRetry(t)
  \/ \E t \in Active : Scan(t)
  \/ \E t \in Active : GetData(t)
  \/ \E t \in Active : FetchOk(t)
  \/ \E t \in Active, o \in {"unknown", "error"} : FetchFail(t, o, MaxFail)

Spec == Init /\ [][Next]_vars

(* ------------------- the store functions, called in turn ---------------- *)

\* A single client calls setTimerInRedis, getTimerFromRedis,
\* clearTimerFromRedis and the due scan of checkTimers one after the other;
\* each Redis call of a function is one step.

Returned(c) ==
  /\ prev' = last
  /\ last' = c
  /\ call' = NoCall

\* setTimerInRedis(channelId, timerType, targetTime) is called
CallSet(p, t) ==
  /\ call.op = "none"
  /\ call' = [NoCall EXCEPT !.op = "set", !.pair = p, !.t = t, !.pc = "setKey"]
  /\ pre' = <<timers, queue>>
  /\ UNCHANGED <<timers, queue, now, last, prev, engine>>

\* await redis.set(key, JSON.stringify(timerData))
StoreSetKey ==
  /\ call.pc = "setKey"
  /\ timers' = SetTimerKey(timers, call.pair, call.t)
  /\ call' = [call EXCEPT !.pc = "setZadd"]
  /\ UNCHANGED <<queue, now, last, prev, pre, engine>>

\* await redis.zadd('timers:queue', targetTime, member); the function returns
StoreSetZadd ==
  /\ call.pc = "setZadd"
  /\ queue' = ZAdd(queue, call.t, call.pair)
  /\ Returned([call EXCEPT !.pc = "-"])
  /\ UNCHANGED <<timers, now, pre, engine>>

\* getTimerFromRedis(channelId, timerType): one GET, the targetTime returned
CallGet(p) ==
  /\ call.op = "none"
  /\ Returned([NoCall EXCEPT !.op = "get", !.pair = p, !.ret = ParseTargetTime(timers[p])])
  /\ pre' = <<timers, queue>>
  /\ UNCHANGED <<timers, queue, now, engine>>

\* clearTimerFromRedis(channelId, timerType) is called
CallClear(p) ==
  /\ call.op = "none"
  /\ call' = [NoCall EXCEPT !.op = "clear", !.pair = p, !.pc = "del"]
  /\ pre' = <<timers, queue>>
  /\ UNCHANGED <<timers, queue, now, last, prev, engine>>

\* await redis.del(key)
StoreDel ==
  /\ call.pc = "del"
  /\ timers' = DelTimerKey(timers, call.pair)
  /\ call' = [call EXCEPT !.pc = "zrem"]
  /\ UNCHANGED <<queue, now, last, prev, pre, engine>>

\* await redis.zrem('timers:queue', member); the function returns
StoreZrem ==
  /\ call.pc = "zrem"
  /\ queue' = ZRem(queue, call.pair)
  /\ Returned([call EXCEPT !.pc = "-"])
  /\ UNCHANGED <<timers, now, pre, engine>>

\* the due scan of checkTimers at Date.now(): one ZRANGEBYSCORE
CallScan ==
  /\ call.op = "none"
  /\ Returned([NoCall EXCEPT !.op = "scan", !.t = now, !.list = DueBefore(queue, now)])
  /\ pre' = <<timers, queue>>
  /\ UNCHANGED <<timers, queue, now, engine>>

\* GET of the timer key of (channelId, timerType); keys of other pairs than
\* Pairs are never written
GetKey(tm, ch, k) == IF <<ch, k>> \in Pairs THEN tm[<<ch, k>>] ELSE Nil
Channels == {p[1] : p \in Pairs}

\* handleTimerCommand(msg, channelId) for '!timer' (and the /timer command)
CallStatus(ch) ==
  /\ call.op = "none"
  /\ call' = [NoCall EXCEPT !.op = "status", !.pair = <<ch, "-">>, !.pc = "getRescue"]
  /\ pre' = <<timers, queue>>
  /\ UNCHANGED <<timers, queue, now, last, prev, engine>>

\* rescueTime = await getTimerFromRedis(channelId, 'rescue')
StatusGetRescue ==
  /\ call.pc = "getRescue"
  /\ call' = [call EXCEPT !.pc = "getCardPull",
                          !.ret = ParseTargetTime(GetKey(timers, call.pair[1], "rescue"))]
  /\ UNCHANGED <<timers, queue, now, last, prev, pre, engine>>

\* cardPullTime = await getTimerFromRedis(channelId, 'cardPull'); the
\* response holds formatTimerStatus of both, computed at Date.now()
StatusGetCardPull ==
  /\ call.pc = "getCardPull"
  /\ LET cardPullTime == ParseTargetTime(GetKey(timers, call.pair[1], "cardPull"))
     IN Returned([call EXCEPT !.pc = "-", !.t = now, !.ret = 0,
                              !.list = <<FormatTimerStatus(call.ret, now),
                                         FormatTimerStatus(cardPullTime, now)>>])
  /\ UNCHANGED <<timers, queue, now, pre, engine>>

StoreInit ==
  /\ timers = [p \in Pairs |-> Nil]
  /\ queue = {}
  /\ retries = [p \in Pairs |-> 0]
  /\ expiry = NoExpiry
  /\ now = RETRY_DELAY
  /\ tasks = EmptyBag
  /\ pending = NoPending
  /\ retryAt = NoPending
  /\ armed = [p \in Pairs |-> 0]
  /\ fired = [p \in Pairs |-> 0]
  /\ fails = 0
  /\ restarts = 0
  /\ call = NoCall
  /\ last = NoCall
  /\ prev = NoCall
  /\ pre = <<timers, queue>>

StoreNext ==
  \/ AdvanceClock
  \/ \E p \in Pairs, t \in Instants : CallSet(p, t)
  \/ StoreSetKey
  \/ StoreSetZadd
  \/ \E p \in Pairs : CallGet(p)
  \/ \E p \in Pairs : CallClear(p)
  \/ StoreDel
  \/ StoreZrem
  \/ CallScan
  \/ \E ch \in Channels : CallStatus(ch)
  \/ StatusGetRescue
  \/ StatusGetCardPull

StoreSpec == StoreInit /\ [][StoreNext]_vars

(* --------------------------- the store functions ----------------------- *)

TargetOf(tm, p) == ParseTargetTime(tm[p])
Live(tm, p) == tm[p] # Nil

\* C7: setTimerInRedis(s,k,t1) followed by setTimerInRedis(s,k,t2) leaves one
\* timer record for (s,k), with targetTime t2, and one index entry for the
\* pair, scored t2; and in no state, the states between the two Redis calls of
\* a function included, does the index hold two entries for one pair.
C7_Supersession ==
  /\ \A p \in Pairs : Cardinality(EntriesOf(queue, p)) <= 1
  /\ (call.op = "none" /\ last.op = "set" /\ prev.op = "set" /\ prev.pair = last.pair)
       => /\ Live(timers, last.pair)
          /\ TargetOf(timers, last.pair) = last.t
          /\ EntriesOf(queue, last.pair) = {<<last.t, last.pair>>}

C7_Witness ==
  /\ call.op = "none" /\ last.op = "set" /\ prev.op = "set"
  /\ prev.pair = last.pair /\ prev.t = 2 * RETRY_DELAY /\ last.t = RETRY_DELAY

\* C8: getTimerFromRedis(s,k) called right after setTimerInRedis(s,k,t) has
\* returned gives back t.
C8_RoundTrip ==
  (last.op = "get" /\ prev.op = "set" /\ prev.pair = last.pair) => last.ret = prev.t

C8_Witness ==
  last.op = "get" /\ prev.op = "set" /\ prev.pair = last.pair /\ last.ret = 2 * RETRY_DELAY

\* C9: after clearTimerFromRedis(s,k) has returned there is neither a record
\* nor an index entry for (s,k); called for an absent timer, or a second time
\* in a row, it leaves the store exactly as it found it.
C9_ClearIdempotent ==
  (call.op = "none" /\ last.op = "clear") =>
    /\ ~Live(timers, last.pair)
    /\ EntriesOf(queue, last.pair) = {}
    /\ (~Live(pre[1], last.pair) /\ EntriesOf(pre[2], last.pair) = {})
         => <<timers, queue>> = pre
    /\ (prev.op = "clear" /\ prev.pair = last.pair) => <<timers, queue>> = pre

C9_Witness ==
  /\ call.op = "none" /\ last.op = "clear" /\ prev.op = "clear" /\ prev.pair = last.pair
  /\ \E p \in Pairs : Live(timers, p)

\* C10: the due scan at instant now returns each pair that has a timer with
\* targetTime <= now, once, no other pair, and in non-decreasing order of
\* targetTime.
C10_DueBefore ==
  (call.op = "none" /\ last.op = "scan") =>
    LET L == last.list IN
      /\ {L[i] : i \in 1..Len(L)} =
           {p \in Pairs : Live(timers, p) /\ TargetOf(timers, p) <= last.t}
      /\ \A i, j \in 1..Len(L) : i < j =>
           /\ L[i] # L[j]
           /\ TargetOf(timers, L[i]) <= TargetOf(timers, L[j])

\* a scan that returns both pairs, the later member first, and one that leaves
\* a timer of the future out
C10_Witness ==
  /\ call.op = "none" /\ last.op = "scan"
  /\ last.list = <<(<<"c2", "cardPull">>), (<<"c1", "rescue">>)>>
  /\ TargetOf(timers, <<"c2", "cardPull">>) < TargetOf(timers, <<"c1", "rescue">>)

(* ------------------------------- delivery ------------------------------ *)

\* the program points inside sendMessage
SendPcs == {"send", "clearRetry", "getRetry", "incr", "expire", "exDel", "exZrem", "exClr"}

\* the deliveries of the ready message of pair p under way: the calls of
\* sendMessage that have not returned, and the retries scheduled
Delivering(p) ==
  {t \in Active : t.pair = p /\ t.msg = "ready" /\ t.pc \in SendPcs}
InFlight(p) ==
  pending[<<p, "ready">>] + BagCardinality([t \in Delivering(p) |-> tasks[t]])

\* C1: each deadline armed by a setTimer call fires at most once, so the
\* transport never accepts more ready notifications for a pair than setTimer
\* calls were made for it.
C1_NoDoubleFiring == \A p \in Pairs : fired[p] <= armed[p]

\* C2: the delivery path removes a live timer record only when no retry of the
\* pair's ready message is scheduled.
C2_NoClearWhileRetryPending ==
  [][\A p \in Pairs :
       (Live(timers, p) /\ ~Live(timers', p)) => pending[<<p, "ready">>] = 0]_vars

\* C5: at most one delivery of a pair's ready message is under way at a time
\* (a running send or a scheduled retry).
C5_NoConcurrentDelivery == \A p \in Pairs : InFlight(p) <= 1

\* C6: in every state every live timer record has exactly one index entry, scored
\* with its targetTime, and every index entry belongs to a live timer record.
C6_IndexRecordConsistent ==
  \A p \in Pairs :
    /\ Live(timers, p) => EntriesOf(queue, p) = {<<TargetOf(timers, p), p>>}
    /\ EntriesOf(queue, p) # {} => Live(timers, p)

\* C4: when sendMessage gives up (retry counter at MAX_RETRY_ATTEMPTS) it
\* leaves neither timer record, index entry nor retry counter for the pair,
\* and no further send of the pair's ready message is under way or scheduled.
C4_ExhaustionIsFinal ==
  [][\A t \in Active :
       (t.pc = "exClr" /\ t.msg = "ready" /\ tasks' = Become(t, AfterSend(t, FALSE))
          /\ retries' = [retries EXCEPT ![t.pair] = 0])
       => /\ ~Live(timers', t.pair)
          /\ EntriesOf(queue', t.pair) = {}
          /\ retries'[t.pair] = 0
          /\ pending'[<<t.pair, "ready">>] = 0
          /\ Delivering(t.pair)' = {}]_vars

(* ------------------- transient failure of the transport ---------------- *)

\* The transport fails fewer than MAX_RETRY_ATTEMPTS times and succeeds from
\* then on; the process keeps running, so every scheduled retry runs; each
\* pair is armed by one setTimer call.
TransientLimit == MAX_RETRY_ATTEMPTS - 1

StartSetOnce(p, t, n) == armed[p] = 0 /\ StartSet(p, t, n)

FairNext ==
  \/ AdvanceClock
  \/ StartTick
  \/ \E p \in Pairs, t \in Instants, n \in BOOLEAN : StartSetOnce(p, t, n)
  \/ \E p \in Pairs, m \in Msgs : FireRetry(p, m)
  \/ \E t \in Active : SetKey(t)
  \/ \E t \in Active : SetZadd(t)
  \/ \E t \in Active : DelKey(t)
  \/ \E t \in Active : ZremMember(t)
  \/ \E t \in Active : SendOk(t)
  \/ \E t \in Active : SendFail(t, TransientLimit)
  \/ \E t \in Active : ClearRetry(t)
  \/ \E t \in Active : GetRetry(t)
  \/ \E t \in Active : IncrRetry(t)
  \/ \E t \in Active : ScheduleRetry(t)
  \/ \E t \in Active : Scan(t)
  \/ \E t \in Active : GetData(t)
  \/ \E t \in Active : FetchOk(t)
  \/ \E t \in Active : FetchFail(t, "error", TransientLimit)

\* one step of a running function, whatever the transport answers
Resume(t) ==
  \/ SetKey(t) \/ SetZadd(t) \/ DelKey(t) \/ ZremMember(t)
  \/ SendOk(t) \/ SendFail(t, TransientLimit)
  \/ ClearRetry(t) \/ GetRetry(t) \/ IncrRetry(t) \/ ScheduleRetry(t)
  \/ Scan(t) \/ GetData(t)
  \/ FetchOk(t) \/ FetchFail(t, "error", TransientLimit)

\* the event loop resumes every function whose await has settled, runs every
\* setTimeout callback, and setInterval keeps starting passes; a callback or
\* a pass that finds no room (HasRoom) runs once there is room again
Fairness ==
  /\ WF_vars(AdvanceClock)
  /\ SF_vars(StartTick)
  /\ \A p \in Pairs, m \in Msgs : SF_vars(FireRetry(p, m))
  /\ \A p \in Pairs \cup {NoPair}, ty \in {"tick", "set", "retry"} :
       WF_vars(\E t \in Active : t.pair = p /\ t.type = ty /\ Resume(t))

FairSpec == Init /\ [][FairNext]_vars /\ Fairness

DueTimer(p) == Live(timers, p) /\ TargetOf(timers, p) <= now
Gone(p) == ~Live(timers, p) /\ EntriesOf(queue, p) = {}

\* C3: with a transport that fails fewer than MAX_RETRY_ATTEMPTS times, a timer
\* that is due is eventually delivered, and its record and index entry are
\* eventually removed.
C3_EventualDelivery ==
  \A p \in Pairs : DueTimer(p) ~> (fired[p] >= 1 /\ Gone(p))

\* delivered and removed after the transport failed for the pair as often as allowed
C3_Witness ==
  LET p == <<"c1", "rescue">> IN
    /\ fails = TransientLimit /\ fired[p] >= 1 /\ Gone(p) /\ armed[p] = 1
    /\ tasks = EmptyBag /\ pending = NoPending

(* ------------------- timers found by the polling passes ---------------- *)

\* The process starts with two timers in Redis, written by setTimer calls
\* that have returned: one that came due while the process was down, one
\* set for an instant still to come. clientReady starts checkMissedTimers
\* without awaiting it and arms setInterval; no message arrives. The
\* transport of the first pair's channel may fail TransientLimit times, the
\* other channel's transport succeeds.
MissedPair == <<"c1", "rescue">>
FuturePair == <<"c2", "cardPull">>
MissedTarget == RETRY_DELAY
FutureTarget == 2 * RETRY_DELAY

PollInit ==
  /\ timers = [p \in Pairs |-> IF p = MissedPair THEN StringifyTimer(p, MissedTarget)
                                ELSE StringifyTimer(p, FutureTarget)]
  /\ queue = {<<MissedTarget, MissedPair>>, <<FutureTarget, FuturePair>>}
  /\ retries = [p \in Pairs |-> 0]
  /\ expiry = NoExpiry
  /\ now = RETRY_DELAY
  /\ tasks = One(NewTick)
  /\ pending = NoPending
  /\ retryAt = NoPending
  /\ armed = [p \in Pairs |-> 0]
  /\ fired = [p \in Pairs |-> 0]
  /\ fails = 0
  /\ restarts = 0
  /\ call = NoCall
  /\ last = NoCall
  /\ prev = NoCall
  /\ pre = <<timers, queue>>

PollNext ==
  \/ AdvanceClock
  \/ StartTick
  \/ \E p \in Pairs, m \in Msgs : FireRetry(p, m)
  \/ \E t \in Active : DelKey(t)
  \/ \E t \in Active : ZremMember(t)
  \/ \E t \in Active : SendOk(t)
  \/ \E t \in Active : SendFail(t, TransientLimit)
  \/ \E t \in Active : ClearRetry(t)
  \/ \E t \in Active : GetRetry(t)
  \/ \E t \in Active : IncrRetry(t)
  \/ \E t \in Active : ScheduleRetry(t)
  \/ \E t \in Active : Scan(t)
  \/ \E t \in Active : GetData(t)
  \/ \E t \in Active : FetchOk(t)

PollSpec == PollInit /\ [][PollNext]_vars

\* The same, with messages arriving: each pair may be set once more.
RearmNext ==
  \/ PollNext
  \/ \E p \in Pairs, t \in Instants, n \in BOOLEAN : StartSet(p, t, n)
  \/ \E t \in Active : SetKey(t)
  \/ \E t \in Active : SetZadd(t)

RearmSpec == PollInit /\ [][RearmNext]_vars

\* Status(s,k) of the status reader on the current store
Status(p) == FormatTimerStatus(ParseTargetTime(timers[p]), now)

\* C11: with a transport that succeeds, the timer set for a future instant is
\* not delivered before that instant, is delivered once, and once it is
\* delivered and its record and index entry are removed the status of the
\* pair is NoTimer.
C11_FutureTimerFiresOnce ==
  /\ fired[FuturePair] <= 1
  /\ fired[FuturePair] >= 1 => now >= FutureTarget
  /\ (fired[FuturePair] >= 1 /\ Gone(FuturePair)) => Status(FuturePair).status = "NoTimer"

\* C12: the timer that came due before the process started is delivered by
\* the startup pass once, and by no later pass again.
C12_RecoveryFiresOnce == fired[MissedPair] <= 1

(* ----------------------------- retry counter --------------------------- *)

\* C13: when sendMessage returns from its success branch (the process keeps
\* running) the pair's retry counter is absent whatever it was before, and the
\* increment that a failure makes on an absent counter records 1.
C13_SuccessResetsCounter ==
  [][\A t \in Active :
       /\ (t.pc = "clearRetry" /\ tasks' = Become(t, AfterSend(t, TRUE))
             /\ restarts' = restarts)
            => retries'[t.pair] = 0
       /\ (t.pc = "incr" /\ retries[t.pair] = 0
             /\ tasks' = Become(t, [t EXCEPT !.pc = "expire"]))
            => retries'[t.pair] = 1]_vars

\* two failures, a success, and the failure after it counted as the first
C13_Witness ==
  LET p == <<"c1", "rescue">> IN
    /\ fails = 3 /\ fired[p] = 1 /\ retries[p] = 1
    /\ \E t \in Active : t.pair = p /\ t.pc = "expire"

(* ----------------------------- status reader --------------------------- *)

StatusKinds == <<"rescue", "cardPull">>
\* the seconds a remaining time stands for
SecondsOf(left) == 3600 * left.h + 60 * left.m + left.s

\* C14: the status returned for each kind is NoTimer when the pair has no
\* record, Ready when the record's targetTime is not after the instant of the
\* answer, else the time remaining until targetTime; and the status query
\* leaves timer records, index and retry counters as they were.
C14_StatusReader ==
  (call.op = "none" /\ last.op = "status") =>
    /\ <<timers, queue>> = pre
    /\ retries = [p \in Pairs |-> 0]
    /\ \A i \in 1..2 :
         LET v == GetKey(timers, last.pair[1], StatusKinds[i])
             r == last.list[i]
             d == FromDigits(v.targetTime) - last.t
         IN IF v = Nil THEN r.status = "NoTimer"
            ELSE IF d <= 0 THEN r.status = "Ready"
            ELSE r.status = "Remaining" /\ SecondsOf(r.left) = d \div 1000

(* --------------------------- permanent failure ------------------------- *)

\* C15: when a pass clears a timer because its channel no longer exists
\* (Unknown Channel from client.channels.fetch), it leaves what retry
\* exhaustion leaves: neither timer record, index entry nor retry counter.
C15_PermanentFailureClearsAll ==
  [][\A t \in Active :
       (t.type = "tick" /\ t.pc = "clrZrem" /\ t.msg = "-"
          /\ tasks' = Become(t, AfterClear(t)) /\ restarts' = restarts)
       => /\ ~Live(timers', t.pair)
          /\ EntriesOf(queue', t.pair) = {}
          /\ retries'[t.pair] = 0]_vars

(* ------------------------- unreadable timer records -------------------- *)

\* Redis holds, under the key of one pair, a value that setTimerInRedis did
\* not write (the code's "old format" fallback expects such values), with or
\* without an index entry; the store functions are then called in turn.
LegacyPair == <<"c1", "rescue">>
LegacyValues ==
  { [kind |-> "text", text |-> <<"a", "b", "c">>],
    [kind |-> "text", text |-> <<"5", "0", "0", "0", "a", "b", "c">>],
    [kind |-> "jsonNull"],
    [kind |-> "noField"],
    [kind |-> "strField"] }

LegacyInit ==
  /\ \E v \in LegacyValues : timers = [p \in Pairs |-> IF p = LegacyPair THEN v ELSE Nil]
  /\ queue \in {{}, {<<RETRY_DELAY, LegacyPair>>}}
  /\ retries = [p \in Pairs |-> 0]
  /\ expiry = NoExpiry
  /\ now = RETRY_DELAY
  /\ tasks = EmptyBag
  /\ pending = NoPending
  /\ retryAt = NoPending
  /\ armed = [p \in Pairs |-> 0]
  /\ fired = [p \in Pairs |-> 0]
  /\ fails = 0
  /\ restarts = 0
  /\ call = NoCall
  /\ last = NoCall
  /\ prev = NoCall
  /\ pre = <<timers, queue>>

LegacyNext ==
  \/ AdvanceClock
  \/ \E p \in Pairs : CallGet(p)
  \/ \E ch \in Channels : CallStatus(ch)
  \/ StatusGetRescue
  \/ StatusGetCardPull
  \/ CallScan

LegacySpec == LegacyInit /\ [][LegacyNext]_vars

\* a stored value that is not a timer record
Malformed(v) == v.kind \notin {"nil", "json"}

\* C16: getTimerFromRedis on a malformed record reports no timer (a value its
\* callers take for none), and the malformed record is discarded: after the
\* call neither it nor an index entry of the pair is left.
C16_CorruptRecordAbsent ==
  (call.op = "none" /\ last.op = "get" /\ Malformed(pre[1][last.pair])) =>
    /\ Falsy(last.ret)
    /\ ~Live(timers, last.pair)
    /\ EntriesOf(queue, last.pair) = {}

\* the same without the discard: what Get reports
C16_GetReportsAbsent ==
  (call.op = "none" /\ last.op = "get" /\ Malformed(pre[1][last.pair])) => Falsy(last.ret)

(* --------------------------- message handlers -------------------------- *)

\* One message arrives and a handler turns the text its pattern captured
\* into a setTimer call; the transport succeeds. absoluteFromParts is also
\* applied on its own.
TimeStrings ==
  { <<"1", ":", "2", "3", ":", "4", "5">>,
    <<"5", ":", "0", "0">>,
    <<"4", "5">>,
    <<"3", " ", "h", "o", "u", "r", "s", " ", "a", "n", "d", " ", "3", "1", " ", "m", "i", "n", "u", "t", "e", "s">>,
    <<"N", "o", "w">>,
    <<"s", "o", "o", "n">>,
    <<>>,
    <<"i", "g", "n", "o", "r", "e", "d">> }
NoHint == <<>>
\* the seconds that <t:...> carries
Hints == {NoHint, <<"0">>, <<"5">>, <<"1", "0">>}
EpochHints == Hints \cup {<<"1", "7", "0", "0", "0", "0", "0", "0", "0", "0">>}

\* the timer type a handler sets
HandlerKind(h) == IF h = "cardPull" THEN "cardPull" ELSE "rescue"
Handlers == {"cooldown", "cardPull", "nextRescue"}
\* handleCooldownMessage passes null for ts
HintOf(h, ts) == IF h = "cooldown" THEN NoHint ELSE ts

\* absoluteFromParts(timeStr, ts) applied at Date.now()
NormalizeCall(timeStr, ts) ==
  /\ last.op = "none"
  /\ last' = [NoCall EXCEPT !.op = "normalize", !.t = now, !.list = <<timeStr, ts>>,
                            !.ret = AbsoluteFromParts(timeStr, ts, now)]
  /\ UNCHANGED <<timers, queue, now, call, prev, pre, engine>>

\* handleCooldownMessage, handleCardPullMessage or handleNextRescueMessage on
\* a message in channel ch whose pattern captured timeStr and ts: the timer of
\* the handler's type is set to absoluteFromParts(timeStr, ts), with notify
\* when the message came from a todo listing
HandleMessage(h, ch, timeStr, ts, fromTd) ==
  /\ call.op = "none"
  /\ <<ch, HandlerKind(h)>> \in Pairs
  /\ HasRoom
  /\ call' = [NoCall EXCEPT !.op = h, !.pair = <<ch, HandlerKind(h)>>, !.t = now,
                            !.list = <<timeStr, HintOf(h, ts)>>]
  /\ tasks' = Started([Idle EXCEPT !.type = "set", !.pc = "setKey",
                                   !.pair = <<ch, HandlerKind(h)>>, !.msg = "ready",
                                   !.target = FromDigits(AbsoluteFromParts(timeStr, HintOf(h, ts), now)),
                                   !.notify = (h # "cooldown" /\ fromTd)])
  /\ armed' = [armed EXCEPT ![<<ch, HandlerKind(h)>>] = @ + 1]
  /\ UNCHANGED <<store, now, pending, retryAt, fired, fails, restarts, last, prev, pre>>

HandlerNext ==
  \/ AdvanceClock
  \/ \E timeStr \in TimeStrings, ts \in EpochHints : NormalizeCall(timeStr, ts)
  \/ \E h \in Handlers, ch \in Channels, timeStr \in TimeStrings, ts \in Hints,
        fromTd \in BOOLEAN : HandleMessage(h, ch, timeStr, ts, fromTd)
  \/ \E t \in Active : SetKey(t)
  \/ \E t \in Active : SetZadd(t)
  \/ \E t \in Active : SendOk(t)
  \/ \E t \in Active : ClearRetry(t)
  \/ \E t \in Active : DelKey(t)
  \/ \E t \in Active : ZremMember(t)

HandlerSpec == StoreInit /\ [][HandlerNext]_vars

\* what the claims call a string that denotes now, a colon-delimited
\* duration, and the duration a string stands for
DenotesNow(str) == ToLower(Trim(RemoveStars(str))) = <<"n", "o", "w">>
ColonForm(str) ==
  LET t == Trim(RemoveStars(str))
  IN Len(t) > 0 /\ \A i \in 1..Len(t) : IsDigit(t[i]) \/ t[i] = ":"
ClaimedDuration(str) == IF ColonForm(str) THEN ParseCooldown(str) ELSE ParseHumanDuration(str)
HintPresent(ts) == Len(ts) > 0 /\ TimesThousand(ts) # <<0>>

\* C17: a message whose duration text is malformed or empty (a zero duration,
\* no epoch hint, not "now") fires no ready notification, and once its
\* handler is done the store is as it was before the message.
C17_ZeroDurationIsNoOp ==
  (call.op \in Handlers /\ ~HintPresent(call.list[2]) /\ ~DenotesNow(call.list[1])
     /\ ClaimedDuration(call.list[1]) = 0)
  => /\ fired[call.pair] = 0
     /\ tasks = EmptyBag => (timers = [p \in Pairs |-> Nil] /\ queue = {})

\* C18: absoluteFromParts(string, hint) at instant T is hint * 1000 when the
\* hint is present and not zero, else T when the string denotes now, else T
\* plus the duration of the string, colon-delimited or free text; as for the
\* three examples of the claim.
C18_Normalize ==
  last.op = "normalize" =>
    LET str == last.list[1]
        ts == last.list[2]
        T == last.t
    IN /\ last.ret = IF HintPresent(ts) THEN TimesThousand(ts)
                     ELSE IF DenotesNow(str) THEN ToDigits(T)
                     ELSE ToDigits(T + ClaimedDuration(str))
       /\ (str = <<"3", " ", "h", "o", "u", "r", "s", " ", "a", "n", "d", " ", "3", "1", " ", "m", "i", "n", "u", "t", "e", "s">> /\ ts = NoHint) => last.ret = ToDigits(T + 12660000)
       /\ (str = <<"1", ":", "2", "3", ":", "4", "5">> /\ ts = NoHint) => last.ret = ToDigits(T + 5025000)
       /\ (str = <<"i", "g", "n", "o", "r", "e", "d">> /\ ts = <<"1", "7", "0", "0", "0", "0", "0", "0", "0", "0">>)
            => last.ret = <<1, 7, 0, 0, 0, 0, 0, 0, 0, 0, 0, 0, 0>>

(* ----------------------------- scheduler pass -------------------------- *)

C19_CleanUpReached ==
  \E t \in Active :
    /\ t.type = "tick" /\ t.pc = "cleanZrem"
    /\ ~Live(timers, t.pair) /\ EntriesOf(queue, t.pair) # {}

\* the passes of checkTimers in progress
Passes == BagCardinality([t \in {u \in Active : u.type = "tick"} |-> tasks[t]])

\* C20: at most one pass of checkTimers, the startup pass included, is in
\* progress at any time.
C20_SingleActiveScheduler == Passes <= 1

(* ------------------------ re-arming during delivery --------------------- *)

\* C21: a timer record whose targetTime is still ahead (the pair was set again
\* while the delivery of its earlier deadline was under way) is not removed
\* when that delivery completes, and neither is its index entry.
C21_RearmedTimerStaysLive ==
  [][\A p \in Pairs :
       (Live(timers, p) /\ TargetOf(timers, p) > now)
       => /\ Live(timers', p)
          /\ <<TargetOf(timers, p), p>> \in queue => EntriesOf(queue', p) # {}]_vars

\* no async function is running and no retry is scheduled
Quiescent == tasks = EmptyBag /\ pending = NoPending

FireRetryDue(p, m) == now >= retryAt[<<p, m>>] /\ FireRetry(p, m)

\* The persisted timers and the passes of PollSpec, with the retry callbacks
\* held back until they are due.
BackoffNext ==
  \/ AdvanceClock
  \/ StartTick
  \/ \E p \in Pairs, m \in Msgs : FireRetryDue(p, m)
  \/ \E t \in Active : DelKey(t)
  \/ \E t \in Active : ZremMember(t)
  \/ \E t \in Active : SendOk(t)
  \/ \E t \in Active : SendFail(t, TransientLimit)
  \/ \E t \in Active : ClearRetry(t)
  \/ \E t \in Active : GetRetry(t)
  \/ \E t \in Active : IncrRetry(t)
  \/ \E t \in Active : ScheduleRetry(t)
  \/ \E t \in Active : Scan(t)
  \/ \E t \in Active : GetData(t)
  \/ \E t \in Active : FetchOk(t)

BackoffSpec == PollInit /\ [][BackoffNext]_vars

\* C23: a send that fails while the retry counter is below
\* MAX_RETRY_ATTEMPTS takes the retry branch; there the counter goes up by
\* one, its expiry is set to RETRY_TTL from now (unless a send that
\* succeeded meanwhile has deleted the counter), one more retry of the same
\* message of the same pair is scheduled, due RETRY_DELAY from now, and
\* sendMessage returns false (the pass does not clear the timer); none of
\* these steps changes the timer record or the index. A scheduled retry
\* starts no sooner than it is due, as a send of that message.
C23_FailedDeliverSchedulesRetry ==
  [][/\ \A t \in Active :
          /\ (t.pc = "getRetry" /\ retries[t.pair] < MAX_RETRY_ATTEMPTS
                /\ tasks' = Become(t, [t EXCEPT !.pc = RetryBranch(retries[t.pair])]))
             => /\ tasks' = Become(t, [t EXCEPT !.pc = "incr"])
                /\ UNCHANGED <<timers, queue, retries, expiry, pending>>
          /\ (t.pc = "incr" /\ tasks' = Become(t, [t EXCEPT !.pc = "expire"]))
             => /\ retries'[t.pair] = retries[t.pair] + 1
                /\ \A q \in Pairs \ {t.pair} : retries'[q] = retries[q]
                /\ UNCHANGED <<timers, queue, pending>>
          /\ (t.pc = "expire"
                /\ tasks' \in {Become(t, AfterSend(t, FALSE)), Become(t, AfterSend(t, TRUE))})
             => /\ retries[t.pair] > 0 => expiry'[t.pair] = now + RETRY_TTL
                /\ pending' = [pending EXCEPT ![<<t.pair, t.msg>>] = @ + 1]
                /\ retryAt'[<<t.pair, t.msg>>] = now + RETRY_DELAY
                /\ tasks' = Become(t, AfterSend(t, FALSE))
                /\ t.type = "tick" => tasks' = Become(t, NextPair(t))
                /\ UNCHANGED <<timers, queue, retries, fired>>
     /\ \A x \in Pairs \X Msgs :
          pending'[x] < pending[x]
          => /\ now >= retryAt[x]
             /\ pending'[x] = pending[x] - 1
             /\ tasks' = Started([Idle EXCEPT !.type = "retry", !.pc = "send",
                                              !.pair = x[1], !.msg = x[2]])
             /\ UNCHANGED <<timers, queue, retries, expiry>>]_vars

\* the first send for the missed timer failed: the counter is 1 and expires
\* RETRY_TTL from now, one retry is scheduled RETRY_DELAY from now, the
\* timer is still in the store and nothing was delivered
C23_Witness ==
  /\ retries[MissedPair] = 1
  /\ expiry[MissedPair] = now + RETRY_TTL
  /\ pending[<<MissedPair, "ready">>] = 1
  /\ retryAt[<<MissedPair, "ready">>] = now + RETRY_DELAY
  /\ Live(timers, MissedPair) /\ EntriesOf(queue, MissedPair) = {<<MissedTarget, MissedPair>>}
  /\ fired[MissedPair] = 0
  /\ tasks = EmptyBag

(* ------------------------------ bounded retry -------------------------- *)

\* C24: every failed attempt to deliver a due timer, a failed channel fetch
\* as well as a failed send, is either counted against the retry budget
\* (sendMessage goes on to read the counter) or ends in the timer being
\* cleared, so that a transport that fails for good cannot keep the timer
\* due from pass to pass.
C24_FailureCountsOrClears ==
  [][fails' = fails + 1
     => \E t \in Active, pc \in {"getRetry", "clrDel"} :
          tasks' = Become(t, [t EXCEPT !.pc = pc])]_vars

\* C25: the retry counter of a pair never exceeds MAX_RETRY_ATTEMPTS.
C25_RetryCounterBounded == \A p \in Pairs : retries[p] \in 0..MAX_RETRY_ATTEMPTS

(* --------------------------- order of the due list --------------------- *)

\* the place of pair p in the list L
PlaceOf(L, p) == CHOOSE i \in 1..Len(L) : L[i] = p

\* C26: when setTimerInRedis has put pair a and then pair b, which had no
\* entry, into the index with the same targetTime, a due scan that follows
\* lists a before b.
C26_TiesByInsertionOrder ==
  [][(/\ call.op = "none" /\ last'.op = "scan"
      /\ prev.op = "set" /\ last.op = "set"
      /\ prev.pair # last.pair /\ prev.t = last.t /\ last.t <= now
      /\ <<prev.t, prev.pair>> \in pre[2]
      /\ EntriesOf(pre[2], last.pair) = {})
     => PlaceOf(last'.list, prev.pair) < PlaceOf(last'.list, last.pair)]_vars

\* C26, amended: among due pairs with equal targetTime the due scan lists
\* them in the lexicographic order of their index members
\* '<channelId>:<timerType>', whatever the order they were inserted in.
C26_TiesByMember ==
  (call.op = "none" /\ last.op = "scan") =>
    LET L == last.list IN
      \A i, j \in 1..Len(L) :
        (i < j /\ TargetOf(timers, L[i]) = TargetOf(timers, L[j]))
        => MemberRank(L[i]) < MemberRank(L[j])

\* a scan lists both pairs, due at the same instant, and the pair listed
\* first is the one that setTimerInRedis stored last
C26_Witness ==
  /\ call.op = "none" /\ last.op = "scan"
  /\ Len(last.list) = 2
  /\ TargetOf(timers, last.list[1]) = TargetOf(timers, last.list[2])
  /\ prev.op = "set" /\ prev.pair = last.list[1]

(* ----------------------- the moment of a notification ------------------ *)

\* C27: whenever the transport accepts a ready notification for a pair, the
\* pair has at that moment a timer record with targetTime <= now.
C27_ReadyOnlyForDueTimer ==
  [][\A p \in Pairs :
       fired'[p] > fired[p] => (Live(timers, p) /\ TargetOf(timers, p) <= now)]_vars

(* --------------------------- the Set entry point ----------------------- *)

\* C28: a sendMessage that carries the 'timer set' confirmation neither
\* raises the pair's retry counter nor removes the pair's timer record or
\* index entry, however often the send fails.
C28_ConfirmationFailureHarmless ==
  [][\A t \in Active :
       t.msg = "set" =>
         /\ (t.pc = "incr" /\ tasks' = Become(t, [t EXCEPT !.pc = "expire"]))
            => retries' = retries
         /\ (t.pc = "exDel" /\ tasks' = Become(t, [t EXCEPT !.pc = "exZrem"]))
            => timers' = timers
         /\ (t.pc = "exZrem" /\ tasks' = Become(t, [t EXCEPT !.pc = "exClr"]))
            => queue' = queue]_vars

\* setTimer has sent the ready message for a target time that had passed and
\* has not yet returned
SetFiredNotDone(p) ==
  \E u \in Active : /\ u.type = "set" /\ u.pair = p /\ u.msg = "ready"
                     /\ u.pc \in {"clearRetry", "clrDel", "clrZrem"}

\* C29: when setTimer returns after the ready message of a target time that
\* had passed, the pair has neither timer record nor index entry; and while
\* that setTimer call, its message sent, has not returned, no pass delivers
\* the ready message of the pair (the process keeps running).
C29_ImmediateFireOnce ==
  [][\A t \in Active :
       /\ (t.type = "set" /\ t.pc = "clrZrem" /\ restarts' = restarts
             /\ tasks' = tasks (-) One(t))
          => (~Live(timers', t.pair) /\ EntriesOf(queue', t.pair) = {})
       /\ (t.type = "tick" /\ t.pc = "send" /\ fired'[t.pair] > fired[t.pair]
             /\ tasks' = Become(t, [t EXCEPT !.pc = "clearRetry"]))
          => ~SetFiredNotDone(t.pair)]_vars

(* ---------------------------- message dispatch ------------------------- *)

\* src/index.js:48: CARD_PULL_DEFAULT_HOURS * 60 * 60 * 1000, rounded
CARD_PULL_DEFAULT_MS == 41400000

\* the duration texts captured by REGEX.pullWait
WaitTexts ==
  {<<"3", " ", "h", "o", "u", "r", "s", " ", "a", "n", "d", " ", "3", "1", " ",
     "m", "i", "n", "u", "t", "e", "s">>,
   <<"s", "o", "o", "n">>}
\* the time texts of the cooldown and summary lines
LineTimes == {<<"5", ":", "0", "0">>, <<"N", "o", "w">>}

\* A message, by the patterns its content matches: the manual reset
\* ('`$ pul`') and '!timer' are whole contents, the other patterns can occur
\* together.
Messages ==
  {m \in [reset : BOOLEAN, pullWait : BOOLEAN, waitText : WaitTexts, cooldown : BOOLEAN,
          cardPull : BOOLEAN, nextRescue : BOOLEAN, timer : BOOLEAN,
          timeStr : LineTimes, fromTd : BOOLEAN] :
     /\ (m.reset \/ m.timer) =>
          (~m.pullWait /\ ~m.cooldown /\ ~m.cardPull /\ ~m.nextRescue /\ ~m.fromTd)
     /\ ~(m.reset /\ m.timer)
     /\ ~m.pullWait => m.waitText = <<"s", "o", "o", "n">>
     /\ ~(m.cooldown \/ m.cardPull \/ m.nextRescue) => m.timeStr = <<"N", "o", "w">>}

\* a call setRescueTimer / setCardPullTimer(channelId, time, channel, notify)
SetCall(kind, time, notify) == [kind |-> kind, target |-> time, notify |-> notify]
LineTime(m, clock) == FromDigits(AbsoluteFromParts(m.timeStr, NoHint, clock))

\* the setTimer calls of the handlers, each on its own
ResetCalls(m, clock) ==
  IF m.reset THEN <<SetCall("cardPull", clock + CARD_PULL_DEFAULT_MS, FALSE)>> ELSE <<>>
PullWaitCalls(m, clock) ==
  IF m.pullWait /\ ParseHumanDuration(m.waitText) > 0
  THEN <<SetCall("cardPull", clock + ParseHumanDuration(m.waitText), FALSE)>> ELSE <<>>
CooldownCalls(m, clock) ==
  IF m.cooldown THEN <<SetCall("rescue", LineTime(m, clock), FALSE)>> ELSE <<>>
CardPullCalls(m, clock) ==
  IF m.cardPull THEN <<SetCall("cardPull", LineTime(m, clock), m.fromTd)>> ELSE <<>>
NextRescueCalls(m, clock) ==
  IF m.nextRescue THEN <<SetCall("rescue", LineTime(m, clock), m.fromTd)>> ELSE <<>>

\* the messageCreate listener of the first version: every pattern is tried
OriginalCalls(m, clock) ==
  ResetCalls(m, clock) \o PullWaitCalls(m, clock) \o CooldownCalls(m, clock)
    \o CardPullCalls(m, clock) \o NextRescueCalls(m, clock)

\* the messageCreate listener: reset || pullWait || cooldown ||
\* (cardPull && nextRescue) || timer command
ChainCalls(m, clock) ==
  IF ResetCalls(m, clock) # <<>> THEN ResetCalls(m, clock)
  ELSE IF PullWaitCalls(m, clock) # <<>> THEN PullWaitCalls(m, clock)
  ELSE IF CooldownCalls(m, clock) # <<>> THEN CooldownCalls(m, clock)
  ELSE IF CardPullCalls(m, clock) # <<>>
  THEN CardPullCalls(m, clock) \o NextRescueCalls(m, clock)
  ELSE <<>>

\* the chain comes to handleTimerCommand when nothing before it returned true
ReachesTimerCommand(m, clock) ==
  /\ ResetCalls(m, clock) = <<>> /\ PullWaitCalls(m, clock) = <<>>
  /\ CooldownCalls(m, clock) = <<>>
  /\ ~(m.cardPull /\ m.nextRescue)

KindsOf(calls) == {calls[i].kind : i \in 1..Len(calls)}

\* the setTimer calls that are for a pair of the model's store; calls for
\* other pairs are kept in the record of the dispatch only
StoredCalls(ch, calls) == {i \in 1..Len(calls) : <<ch, calls[i].kind>> \in Pairs}

\* messageCreate for message m in channel ch: the chain runs, its setTimer
\* calls start (none is awaited), and '!timer' starts the status reader
Dispatch(ch, m) ==
  /\ call.op = "none" /\ last.op = "none"
  /\ HasRoom
  /\ LET calls == ChainCalls(m, now)
         started == StoredCalls(ch, calls)
     IN /\ tasks' = tasks (+) SetToBag({[Idle EXCEPT !.type = "set", !.pc = "setKey",
                                                     !.pair = <<ch, calls[i].kind>>,
                                                     !.msg = "ready",
                                                     !.target = calls[i].target,
                                                     !.notify = calls[i].notify] :
                                         i \in started})
        /\ armed' = [p \in Pairs |->
                       IF \E i \in started : p = <<ch, calls[i].kind>>
                       THEN armed[p] + 1 ELSE armed[p]]
        /\ last' = [NoCall EXCEPT !.op = "dispatch", !.pair = <<ch, "-">>, !.t = now,
                                  !.list = <<m, calls>>]
  /\ prev' = last
  /\ call' = IF ReachesTimerCommand(m, now) /\ m.timer
             THEN [NoCall EXCEPT !.op = "status", !.pair = <<ch, "-">>, !.pc = "getRescue"]
             ELSE NoCall
  /\ pre' = <<timers, queue>>
  /\ UNCHANGED <<store, now, pending, retryAt, fired, fails, restarts>>

DispatchNext ==
  \/ AdvanceClock
  \/ \E ch \in Channels, m \in Messages : Dispatch(ch, m)
  \/ StatusGetRescue
  \/ StatusGetCardPull
  \/ \E t \in Active : SetKey(t)
  \/ \E t \in Active : SetZadd(t)
  \/ \E t \in Active : SendOk(t)
  \/ \E t \in Active : ClearRetry(t)
  \/ \E t \in Active : DelKey(t)
  \/ \E t \in Active : ZremMember(t)

DispatchSpec == StoreInit /\ [][DispatchNext]_vars

\* C30: the chain makes setTimer calls for the same timers as the first
\* version's independent checks: a message with a 'Next Rescue' line sets the
\* rescue timer, with or without a 'Next Card Pull' line, and a message with
\* both lines sets both timers.
C30_ChainSetsSameTimers ==
  (last.op = "dispatch") =>
    LET m == last.list[1]
        kinds == KindsOf(last.list[2])
    IN /\ m.nextRescue => "rescue" \in kinds
       /\ (m.nextRescue /\ m.cardPull) => {"rescue", "cardPull"} \subseteq kinds
       /\ kinds = KindsOf(OriginalCalls(m, last.t))

====
